---- MODULE Spec2Model ----
(***************************************************************************)
(* Model of the bot supervisor of src/main.py: the persistent state store  *)
(* (BotStateManager), the running registry (running_bots), the runner      *)
(* threads (run_bot), the start / stop / restart / toggle / delete         *)
(* handlers, the boot-time auto start, the exit of the supervisor, and the *)
(* state file as save_state writes it and load_state reads it.             *)
(*                                                                         *)
(* Python dicts are modelled as functions whose DOMAIN is the set of keys  *)
(* present, so that "key in d" is "key \in DOMAIN d".  An optional         *)
(* argument (auto_restart = None) is the empty tuple <<>>, and <<v>> when  *)
(* it is given.                                                            *)
(***************************************************************************)
EXTENDS Integers, Sequences, FiniteSets, TLC

VARIABLES
    bots,          \* state_manager.state['bots']: dict bot_id -> record (a dict)
    botOrder,      \* insertion order of the keys of state['bots']
    disk,          \* content of bot_state.json as last written by save_state
    running_bots,  \* the module-level registry: dict bot_id -> handle
    runners,       \* the run_bot threads spawned so far, with their child process
    dirExists,     \* bot_id -> whether bots/<bot_id> exists
    files,         \* bot_id -> the directory listing (iterdir order)
    handlers,      \* the request-handler threads and where each one is
    boot,          \* progress of auto_start_bots on the main thread
    nops,          \* number of requests accepted so far
    clock,         \* datetime.now(), as a counter of the readings taken
    updaters,      \* threads inside update_bot_state, statement by statement
    config,        \* state_manager.config
    cfgOut,        \* outcome of the last set_config / get_config call
    state_file,    \* bot_state.json as the file system holds it, write by write
    savers         \* threads inside save_state, with their file position

vars == <<bots, botOrder, disk, running_bots, runners, dirExists, files,
          handlers, boot, nops, clock, updaters, config, cfgOut, savers>>

-----------------------------------------------------------------------------
(* Bounds of the model *)

(* the worker ids of a run: the ids the handlers serve, the ids booted with *)
Workers == {"w1"}
BootWorkers == {"w1", "w2"}
Ids == DOMAIN dirExists
Handlers == {1, 2}
MaxRuns == 2
MaxOps == 2

(* len(status_history) > 50, main.py line 143 *)
HistoryCap == 50

-----------------------------------------------------------------------------
(* Python dict primitives *)

Put(d, k, v) == [x \in (DOMAIN d) \cup {k} |-> IF x = k THEN v ELSE d[x]]

Merge(d, e) == [x \in (DOMAIN d) \cup (DOMAIN e) |-> IF x \in DOMAIN e THEN e[x] ELSE d[x]]

Del(d, k) == [x \in (DOMAIN d) \ {k} |-> d[x]]

None == <<>>

Some(v) == <<v>>

-----------------------------------------------------------------------------
(* bot_state.json at the level of the file system.  json.dump hands the    *)
(* document to the file object piece by piece and the file object writes   *)
(* its buffer out when it fills and at close; a chunk is what one such     *)
(* write puts in the file: the opening of the document, one record of      *)
(* state['bots'], or the closing with last_updated and server_start_time.  *)
(* A hole is the run of zero bytes the file system puts before a write     *)
(* past the end of the file.                                               *)

OpenChunk == [kind |-> "open"]

CloseChunk == [kind |-> "close"]

Hole == [kind |-> "hole"]

(* the record written blank *)
RecChunkBlank(bot_id, rec) == [kind |-> "rec", id |-> bot_id, rec |-> <<>>]

RecChunk(bot_id, rec) == [kind |-> "rec", id |-> bot_id, rec |-> rec]

(* the whole document json.dump produces for the store *)
Document(b, order) ==
    <<OpenChunk>> \o [k \in 1..Len(order) |-> RecChunk(order[k], b[order[k]])]
                 \o <<CloseChunk>>

NoFile == [exists |-> FALSE, data |-> <<>>]

File(data) == [exists |-> TRUE, data |-> data]

(* a write of one chunk at position pos of the file *)
WriteAt(data, pos, chunk) ==
    IF pos < Len(data) THEN [data EXCEPT ![pos + 1] = chunk]
    ELSE data \o [k \in 1..(pos - Len(data)) |-> Hole] \o <<chunk>>

(* json.load accepts the content: one complete document and nothing else *)
Parses(data) ==
    /\ Len(data) >= 2
    /\ data[1].kind = "open"
    /\ data[Len(data)].kind = "close"
    /\ \A k \in 2..(Len(data) - 1) : data[k].kind = "rec"

RECURSIVE FirstOnly(_)
(* the keys of a parsed object in the order of their first occurrence *)
FirstOnly(q) ==
    IF q = <<>> THEN <<>>
    ELSE LET init == FirstOnly(SubSeq(q, 1, Len(q) - 1))
         IN  IF \E k \in DOMAIN init : init[k] = q[Len(q)] THEN init
             ELSE Append(init, q[Len(q)])

(* json.load of a complete document: a key that occurs twice keeps its     *)
(* last value                                                              *)
Decode(data) ==
    LET recs == SubSeq(data, 2, Len(data) - 1)
        ids == {recs[k].id : k \in DOMAIN recs}
        last(i) == CHOOSE k \in DOMAIN recs :
                      recs[k].id = i /\ \A j \in DOMAIN recs : recs[j].id = i => j <= k
    IN  [bots |-> [i \in ids |-> recs[last(i)].rec],
         order |-> FirstOnly([k \in DOMAIN recs |-> recs[k].id])]

EmptyState == [bots |-> <<>>, order |-> <<>>]

(* load_state that takes what it can read of a broken file *)
load_state_partial(f) ==
    IF ~f.exists THEN EmptyState
    ELSE Decode(<<OpenChunk>> \o SelectSeq(f.data, LAMBDA c : c.kind = "rec")
                             \o <<CloseChunk>>)

(* load_state, lines 56-72: the store after the constructor has read f *)
load_state(f) ==
    IF ~f.exists THEN EmptyState
    ELSE IF Parses(f.data) THEN Decode(f.data)
    ELSE EmptyState

Savers == {1, 2}

(* a thread in save_state: pos is the position of its file object, keys    *)
(* the keys of state['bots'] when json.dump began to iterate them, op and  *)
(* id the mutating call that saves, ioerrors the I/O errors it swallowed   *)
IdleSaver ==
    [pc |-> "idle", pos |-> 0, keys |-> <<>>, op |-> "none", id |-> "none", ioerrors |-> 0]

(* the file holds the store and no thread is in save_state *)
Saved ==
    /\ state_file = File(Document(bots, botOrder))
    /\ savers = [t \in Savers |-> IdleSaver]

-----------------------------------------------------------------------------
(* BotStateManager *)

NewBotState(bot_id, now) ==
    [id |-> bot_id, created_at |-> now, status_history |-> <<>>]

(* the entry without **kwargs *)
StatusEntryBare(status, now, kwargs) == [status |-> status, timestamp |-> now]

StatusEntry(status, now, kwargs) ==
    Merge([status |-> status, timestamp |-> now], kwargs)

(* the slice taken from the wrong end: [:50] for [-50:] *)
TrimHistoryHead(h) ==
    IF Len(h) > HistoryCap THEN SubSeq(h, 1, HistoryCap) ELSE h

TrimHistory(h) ==
    IF Len(h) > HistoryCap THEN SubSeq(h, Len(h) - HistoryCap + 1, Len(h)) ELSE h

(* lines 137-138: a record with no status_history gets an empty one *)
StatusHistoryOf(rec) ==
    IF "status_history" \in DOMAIN rec THEN rec.status_history ELSE <<>>

update_bot_state(b, bot_id, status, auto_restart, kwargs, now) ==
    LET rec0 == IF bot_id \in DOMAIN b THEN b[bot_id] ELSE NewBotState(bot_id, now)
        rec1 == Put(Put(rec0, "status", status), "last_updated", now)
        rec2 == Put(rec1, "status_history",
                    TrimHistory(Append(StatusHistoryOf(rec1),
                                       StatusEntry(status, now, kwargs))))
        rec3 == IF auto_restart # None THEN Put(rec2, "auto_restart", auto_restart[1])
                ELSE rec2
    IN  Put(b, bot_id, Merge(rec3, kwargs))

OrderAfterUpdate(order, b, bot_id) ==
    IF bot_id \in DOMAIN b THEN order ELSE Append(order, bot_id)

save_state(b, order) == [bots |-> b, order |-> order]

get_bot_state(b, bot_id) == IF bot_id \in DOMAIN b THEN b[bot_id] ELSE <<>>

IsAutoStart(rec) ==
    /\ (IF "auto_restart" \in DOMAIN rec THEN rec.auto_restart ELSE TRUE)
    /\ "status" \in DOMAIN rec
    /\ rec.status = "running"

get_auto_start_bots(b, order) == SelectSeq(order, LAMBDA i : IsAutoStart(b[i]))

(* One call of update_bot_state on the shared state, save_state included. *)
Transition(bot_id, status, auto_restart, kwargs) ==
    /\ bots' = update_bot_state(bots, bot_id, status, auto_restart, kwargs, clock)
    /\ botOrder' = OrderAfterUpdate(botOrder, bots, bot_id)
    /\ disk' = save_state(bots', botOrder')
    /\ state_file' = File(Document(bots', botOrder'))
    /\ clock' = clock + 1

NoTransition == UNCHANGED <<bots, botOrder, disk, state_file, clock>>

-----------------------------------------------------------------------------
(* Worker directories.  A listing is the sequence of file names iterdir()  *)
(* yields; Suffix and Lower are Path.suffix and str.lower on those names.  *)

Suffix(name) ==
    IF name = "notes.txt" THEN ".txt" ELSE IF name = "RUN.PY" THEN ".PY" ELSE ".py"

Lower(name) ==
    IF name = "Main.py" THEN "main.py" ELSE IF name = "RUN.PY" THEN "run.py" ELSE name

python_files(listing) == SelectSeq(listing, LAMBDA f : Suffix(f) = ".py")

common_names == <<"main.py", "bot.py", "app.py", "run.py", "start.py">>

Min(S) == CHOOSE x \in S : \A y \in S : x <= y

(* the search of the common names left out: the first file is taken *)
main_script_first(pf) == pf[1]

(* lines 252-264 *)
main_script(pf) ==
    LET hits == {i \in 1..Len(common_names) :
                    \E j \in 1..Len(pf) : Lower(pf[j]) = common_names[i]}
    IN  IF hits = {} THEN pf[1]
        ELSE pf[Min({j \in 1..Len(pf) : Lower(pf[j]) = common_names[Min(hits)]})]

DirListings == {<<"notes.txt">>, <<"util.py", "Main.py">>}

-----------------------------------------------------------------------------
(* State loaded by load_state at boot: records a previous run persisted.   *)

RunningRec(bot_id) ==
    [id |-> bot_id, created_at |-> 0, status |-> "running", last_updated |-> 0,
     auto_restart |-> TRUE, pid |-> 0, start_time |-> 0, command |-> "Main.py",
     status_history |->
        <<[status |-> "starting", timestamp |-> 0],
          [status |-> "running", timestamp |-> 0, pid |-> 0, start_time |-> 0,
           command |-> "Main.py"]>>]

StoppedRec(bot_id) ==
    [id |-> bot_id, created_at |-> 0, status |-> "stopped", last_updated |-> 0,
     auto_restart |-> FALSE, files |-> <<"util.py", "Main.py">>,
     status_history |-> <<[status |-> "stopped", timestamp |-> 0,
                           files |-> <<"util.py", "Main.py">>]>>]

SavedRecords(bot_id) == {RunningRec(bot_id), StoppedRec(bot_id)}

(* The orders in which a dict can hold the keys of S *)
Orders(S) == {o \in UNION {[1..n -> S] : n \in {Cardinality(S)}} :
                \A i, j \in DOMAIN o : i # j => o[i] # o[j]}

-----------------------------------------------------------------------------
(* The configuration: a tree of dicts.  A node is a dict (kind "map"), a   *)
(* string (kind "str") or a value that is neither a container nor a string *)
(* (kind "bool", "int").  A key path "a.b" is the sequence key.split('.')  *)
(* yields, <<"a", "b">>.                                                   *)

MapV(m) == [kind |-> "map", m |-> m]

StrV(str) == [kind |-> "str", s |-> str]

IntV(n) == [kind |-> "int", n |-> n]

BoolV(b) == [kind |-> "bool", b |-> b]

(* load_config, lines 82-91: the configuration written at the first boot *)
DefaultConfig ==
    MapV([auto_start |-> BoolV(TRUE),
          max_concurrent_bots |-> IntV(5),
          auto_restart_on_crash |-> BoolV(FALSE),
          settings |-> MapV([log_retention_days |-> IntV(7),
                             backup_on_edit |-> BoolV(TRUE),
                             notify_on_crash |-> BoolV(FALSE)])])

(* Python's "k in s" on a string s: k occurs in s.  Over the keys and the  *)
(* strings of the model.                                                   *)
Substring(k, str) == k = str \/ (k = "auto_start" /\ str = "auto_start_x")

Raised == [raised |-> TRUE, value |-> StrV("TypeError")]

Returned(v) == [raised |-> FALSE, value |-> v]

RECURSIVE GetWalk(_, _, _)
(* the loop of get_config, lines 193-197, at node with the keys left       *)
GetWalk(node, keys, default) ==
    IF keys = <<>> THEN Returned(node)
    ELSE IF node.kind = "map"
         THEN IF Head(keys) \notin DOMAIN node.m THEN Returned(default)
              ELSE GetWalk(node.m[Head(keys)], Tail(keys), default)
    ELSE IF node.kind = "str"
         THEN IF ~Substring(Head(keys), node.s) THEN Returned(default)
              ELSE Raised   \* str[k]: string indices must be integers
    ELSE Raised             \* "k not in config": the value is not iterable

get_config(cfg, keys, default) == GetWalk(cfg, keys, default)

RECURSIVE SetWalk(_, _, _)
(* the loop of set_config, lines 182-186: yields the node as the call      *)
(* leaves it, and whether the call raised                                  *)
SetWalk(node, keys, value) ==
    IF node.kind # "map" THEN [raised |-> TRUE, node |-> node]
    ELSE IF Len(keys) = 1
         THEN [raised |-> FALSE, node |-> MapV(Put(node.m, Head(keys), value))]
    ELSE LET child == IF Head(keys) \in DOMAIN node.m THEN node.m[Head(keys)]
                      ELSE MapV(<<>>)
             rest == SetWalk(child, Tail(keys), value)
         IN  [raised |-> rest.raised, node |-> MapV(Put(node.m, Head(keys), rest.node))]

set_config(cfg, keys, value) == SetWalk(cfg, keys, value)

NoOut == [op |-> "none", path |-> <<>>, arg |-> IntV(0), raised |-> FALSE,
          value |-> IntV(0)]

-----------------------------------------------------------------------------
(* Threads *)

Updaters == {1, 2}

IdleUpdater == [pc |-> "idle", call |-> 0, ref |-> "none", slice |-> <<>>]

NoRet == [op |-> "none", id |-> "none", res |-> "none"]

IdleHandler ==
    [pc |-> "idle", op |-> "none", id |-> "none", proc |-> 0, arg |-> <<>>, ret |-> NoRet]

Runner(bot_id, by) ==
    [wid |-> bot_id, pc |-> "resolve", proc |-> "none", rc |-> 0, term |-> FALSE,
     log |-> FALSE, script |-> "", by |-> by, exc |-> "", stopAcked |-> FALSE]

RunnerIds == DOMAIN runners

(* runners that have not reached the end of run_bot *)
LiveRunners(bot_id) == {r \in RunnerIds : runners[r].wid = bot_id /\ runners[r].pc # "done"}

(* The main thread of the n-th supervisor process, about to run            *)
(* auto_start_bots over the candidates cands.  size and pos are the dict   *)
(* iterator of save_state_on_exit; tracked and resume remember the         *)
(* registry and the workers running with auto_restart when it began.       *)
MainThread(n, cands) ==
    [phase |-> "autostart", cands |-> cands, idx |-> 1, n |-> n,
     size |-> 0, pos |-> 0, began |-> 0, tracked |-> {}, resume |-> {}]

(* The supervisor right after BotStateManager.__init__, for the ids W *)
Booted(W) ==
    /\ \E present \in SUBSET W :
         /\ \E b \in [present -> UNION {SavedRecords(i) : i \in W}] :
              /\ \A i \in present : b[i].id = i
              /\ bots = b
         /\ botOrder \in Orders(present)
    /\ disk = save_state(bots, botOrder)
    /\ running_bots = <<>>
    /\ runners = <<>>
    /\ dirExists \in [W -> BOOLEAN]
    /\ files \in [W -> DirListings \cup {<<>>}]
    /\ \A i \in W : (files[i] = <<>>) <=> ~dirExists[i]
    /\ handlers = [h \in Handlers |-> IdleHandler]
    /\ boot = MainThread(1, get_auto_start_bots(bots, botOrder))
    /\ nops = 0
    /\ clock = 1
    /\ updaters = [t \in Updaters |-> IdleUpdater]
    /\ config = DefaultConfig
    /\ cfgOut = NoOut
    /\ Saved

Init == Booted(Workers)

InitBoot == Booted(BootWorkers)

-----------------------------------------------------------------------------
(* run_bot, lines 221-356 *)

SetRunner(r, rec) == runners' = [runners EXCEPT ![r] = rec]

(* the except clauses, lines 350 and 356, with the message dropped *)
RaiseRecordNoMessage(bot_id, msg) == Transition(bot_id, "error", None, <<>>)

(* lines 350 and 356: update_bot_state(bot_id, 'error', error=str(e)) *)
RaiseRecord(bot_id, msg) == Transition(bot_id, "error", None, [error |-> msg])

(* the runner thread r ends on the exception msg; the with closes the log *)
Excepts(r, msg) ==
    SetRunner(r, [runners[r] EXCEPT !.pc = "done", !.log = FALSE, !.exc = msg])

(* iterdir() on a directory that is gone raises inside the with block: the *)
(* outer except records error; the log file is closed by the with.         *)
RunnerDirMissing(r) ==
    /\ runners[r].pc = "resolve"
    /\ ~dirExists[runners[r].wid]
    /\ RaiseRecord(runners[r].wid, "FileNotFoundError")
    /\ Excepts(r, "FileNotFoundError")
    /\ UNCHANGED <<running_bots, dirExists, files, handlers, boot, nops, updaters, config, cfgOut, savers>>

(* the no-scripts return taken without the error transition of line 248 *)
RunnerNoScriptsSilent(r) ==
    /\ runners[r].pc = "resolve"
    /\ dirExists[runners[r].wid]
    /\ python_files(files[runners[r].wid]) = <<>>
    /\ NoTransition
    /\ SetRunner(r, [runners[r] EXCEPT !.pc = "done", !.log = FALSE])
    /\ UNCHANGED <<running_bots, dirExists, files, handlers, boot, nops, updaters, config, cfgOut, savers>>

(* lines 246-249: no eligible script: error is recorded and run_bot returns *)
RunnerNoScripts(r) ==
    /\ runners[r].pc = "resolve"
    /\ dirExists[runners[r].wid]
    /\ python_files(files[runners[r].wid]) = <<>>
    /\ Transition(runners[r].wid, "error", None, [error |-> "No Python files found"])
    /\ SetRunner(r, [runners[r] EXCEPT !.pc = "done", !.log = FALSE])
    /\ UNCHANGED <<running_bots, dirExists, files, handlers, boot, nops, updaters, config, cfgOut, savers>>

(* log opened, entry point chosen; the dependency install follows *)
RunnerResolve(r) ==
    /\ runners[r].pc = "resolve"
    /\ dirExists[runners[r].wid]
    /\ python_files(files[runners[r].wid]) # <<>>
    /\ SetRunner(r, [runners[r] EXCEPT !.pc = "launch", !.log = TRUE,
                        !.script = main_script(python_files(files[runners[r].wid]))])
    /\ NoTransition
    /\ UNCHANGED <<running_bots, dirExists, files, handlers, boot, nops, updaters, config, cfgOut, savers>>

(* finally: if bot_id in running_bots: del running_bots[bot_id] *)
Deregister(bot_id) == running_bots' = Del(running_bots, bot_id)

(* Popen with a cwd that is gone raises: inner except, then finally *)
RunnerLaunchFails(r) ==
    /\ runners[r].pc = "launch"
    /\ ~dirExists[runners[r].wid]
    /\ RaiseRecord(runners[r].wid, "FileNotFoundError")
    /\ Deregister(runners[r].wid)
    /\ Excepts(r, "FileNotFoundError")
    /\ UNCHANGED <<dirExists, files, handlers, boot, nops, updaters, config, cfgOut, savers>>

(* lines 310-316: the handle; start_time is datetime.now() *)
Handle(r) == [process |-> r, pid |-> r, start_time |-> clock]

(* lines 297-316: Popen, then the handle is stored in running_bots *)
RunnerLaunch(r) ==
    /\ runners[r].pc = "launch"
    /\ dirExists[runners[r].wid]
    /\ running_bots' = Put(running_bots, runners[r].wid, Handle(r))
    /\ SetRunner(r, [runners[r] EXCEPT !.pc = "registered", !.proc = "alive"])
    /\ clock' = clock + 1
    /\ UNCHANGED <<bots, botOrder, disk, state_file>>
    /\ UNCHANGED <<dirExists, files, handlers, boot, nops, updaters, config, cfgOut, savers>>

(* lines 319-325: the running transition, with pid, start_time and command *)
RunnerRunning(r) ==
    /\ runners[r].pc = "registered"
    /\ Transition(runners[r].wid, "running", None,
                  [pid |-> r, start_time |-> clock, command |-> runners[r].script])
    /\ SetRunner(r, [runners[r] EXCEPT !.pc = "pump"])
    /\ UNCHANGED <<running_bots, dirExists, files, handlers, boot, nops, updaters, config, cfgOut, savers>>

(* lines 331-336: a write to the log fails while the output is pumped; the *)
(* inner except records error, finally deregisters; the child is not       *)
(* waited for                                                              *)
RunnerPumpRaises(r) ==
    /\ runners[r].pc = "pump"
    /\ RaiseRecord(runners[r].wid, "OSError")
    /\ Deregister(runners[r].wid)
    /\ Excepts(r, "OSError")
    /\ UNCHANGED <<dirExists, files, handlers, boot, nops, updaters, config, cfgOut, savers>>

(* the exit code test inverted *)
ExitStatusInverted(return_code) == IF return_code # 0 THEN "stopped" ELSE "crashed"

(* only positive codes taken as failures: a signal's negative code passes *)
ExitStatusPositive(return_code) == IF return_code <= 0 THEN "stopped" ELSE "crashed"

ExitStatus(return_code) == IF return_code = 0 THEN "stopped" ELSE "crashed"

(* the runner ends with the log file still open: no with around the run *)
RunnerExitLeavesLog(r) ==
    /\ runners[r].pc = "pump"
    /\ runners[r].proc = "exited"
    /\ Transition(runners[r].wid, ExitStatus(runners[r].rc), None,
                  [exit_code |-> runners[r].rc])
    /\ Deregister(runners[r].wid)
    /\ SetRunner(r, [runners[r] EXCEPT !.pc = "done"])
    /\ UNCHANGED <<dirExists, files, handlers, boot, nops, updaters, config, cfgOut, savers>>

(* the output pump ends when the child has exited; wait() yields its code; *)
(* the exit transition is recorded, then finally deregisters               *)
RunnerExit(r) ==
    /\ runners[r].pc = "pump"
    /\ runners[r].proc = "exited"
    /\ Transition(runners[r].wid, ExitStatus(runners[r].rc), None,
                  [exit_code |-> runners[r].rc])
    /\ Deregister(runners[r].wid)
    /\ SetRunner(r, [runners[r] EXCEPT !.pc = "done", !.log = FALSE])
    /\ UNCHANGED <<dirExists, files, handlers, boot, nops, updaters, config, cfgOut, savers>>

-----------------------------------------------------------------------------
(* The child process: it exits by itself with code 0 or 1, and with -15    *)
(* when it dies of the SIGTERM that terminate() sent.                      *)

ExitCodes(term) == IF term THEN {0, 1, -15} ELSE {0, 1}

ProcExit(r, code) ==
    /\ runners[r].proc = "alive"
    /\ code \in ExitCodes(runners[r].term)
    /\ SetRunner(r, [runners[r] EXCEPT !.proc = "exited", !.rc = code])
    /\ NoTransition
    /\ UNCHANGED <<running_bots, dirExists, files, handlers, boot, nops, updaters, config, cfgOut, savers>>

-----------------------------------------------------------------------------
(* Request handlers.  They run once the main thread has left               *)
(* auto_start_bots and app.run() serves requests.                          *)

Serving == boot.phase = "serving"

(* a request is taken by the first idle thread of the server's pool *)
Idle(h) ==
    /\ Serving
    /\ handlers[h].pc = "idle"
    /\ \A g \in Handlers : handlers[g].pc = "idle" => h <= g
    /\ nops < MaxOps

Return(h, op, bot_id, res) ==
    handlers' = [handlers EXCEPT ![h] =
                    [IdleHandler EXCEPT !.ret = [op |-> op, id |-> bot_id, res |-> res]]]

Spawn(bot_id, by) == runners' = Append(runners, Runner(bot_id, by))

(* a start that forgets the "already running" check *)
StartResultUnchecked(bot_id) ==
    IF ~dirExists[bot_id] THEN "NotFound"
    ELSE IF python_files(files[bot_id]) = <<>> THEN "NoScripts"
    ELSE "Started"

(* start_bot_persistent, lines 358-387: the result of the checks *)
StartResult(bot_id) ==
    IF ~dirExists[bot_id] THEN "NotFound"
    ELSE IF bot_id \in DOMAIN running_bots THEN "AlreadyRunning"
    ELSE IF python_files(files[bot_id]) = <<>> THEN "NoScripts"
    ELSE "Started"

(* a starting transition that leaves the flag out *)
StartTransitionFlagDropped(bot_id, auto_restart) ==
    Transition(bot_id, "starting", None, <<>>)

(* line 374: the starting transition carries the flag *)
StartTransition(bot_id, auto_restart) ==
    Transition(bot_id, "starting", Some(auto_restart), <<>>)

StartRejected(h, bot_id, auto_restart) ==
    /\ Idle(h)
    /\ StartResult(bot_id) # "Started"
    /\ Return(h, "start", bot_id, StartResult(bot_id))
    /\ nops' = nops + 1
    /\ NoTransition
    /\ UNCHANGED <<running_bots, runners, dirExists, files, boot, updaters, config, cfgOut, savers>>

Start(h, bot_id, auto_restart) ==
    /\ Idle(h)
    /\ StartResult(bot_id) = "Started"
    /\ Len(runners) < MaxRuns
    /\ StartTransition(bot_id, auto_restart)
    /\ Spawn(bot_id, "start")
    /\ Return(h, "start", bot_id, "Started")
    /\ nops' = nops + 1
    /\ UNCHANGED <<running_bots, dirExists, files, boot, updaters, config, cfgOut, savers>>

(* stop_bot_persistent, lines 389-413 *)
(* a stop that records its stopped transition before looking at the registry *)
StopRejectedRecording(bot_id) ==
    /\ Transition(bot_id, "stopped", None, [stopped_by |-> "user"])
    /\ UNCHANGED running_bots

(* line 391-392: return False, "Bot is not running" and nothing else *)
StopRejected(bot_id) ==
    /\ NoTransition
    /\ UNCHANGED running_bots

StopNotRunning(h, bot_id) ==
    /\ Idle(h)
    /\ bot_id \notin DOMAIN running_bots
    /\ Return(h, "stop", bot_id, "NotRunning")
    /\ nops' = nops + 1
    /\ StopRejected(bot_id)
    /\ UNCHANGED <<runners, dirExists, files, boot, updaters, config, cfgOut, savers>>

(* lines 394-400: the handle is read and terminate() is sent;              *)
(* wait(timeout=5) follows                                                 *)
Terminate(h, bot_id, op) ==
    /\ Idle(h)
    /\ bot_id \in DOMAIN running_bots
    /\ LET p == running_bots[bot_id].process IN
         /\ handlers' = [handlers EXCEPT ![h] =
                            [IdleHandler EXCEPT !.pc = "stop_wait", !.op = op,
                                                !.id = bot_id, !.proc = p]]
         /\ runners' = [runners EXCEPT ![p].term = (runners[p].proc = "alive")]
    /\ nops' = nops + 1
    /\ NoTransition
    /\ UNCHANGED <<running_bots, dirExists, files, boot, updaters, config, cfgOut, savers>>

StopTerminate(h, bot_id) == Terminate(h, bot_id, "stop")

(* TimeoutExpired: kill() and wait() *)
StopKill(h) ==
    /\ handlers[h].pc = "stop_wait"
    /\ runners[handlers[h].proc].proc = "alive"
    /\ runners' = [runners EXCEPT ![handlers[h].proc].proc = "exited",
                                  ![handlers[h].proc].rc = -9]
    /\ NoTransition
    /\ UNCHANGED <<running_bots, dirExists, files, handlers, boot, nops, updaters, config, cfgOut, savers>>

(* wait() returns because the process has exited; lines 407-408: the       *)
(* handle, whichever is there by now, is removed                           *)
StopDeregister(h) ==
    /\ handlers[h].pc = "stop_wait"
    /\ runners[handlers[h].proc].proc = "exited"
    /\ running_bots' = Del(running_bots, handlers[h].id)
    /\ handlers' = [handlers EXCEPT ![h].pc = "stop_record"]
    /\ NoTransition
    /\ UNCHANGED <<runners, dirExists, files, boot, nops, updaters, config, cfgOut, savers>>

(* lines 411-413: the stopped transition is recorded and stop returns;     *)
(* stopAcked notes, for the runner of the process that was terminated,     *)
(* that its stop has returned                                              *)
StopRecord(h) ==
    /\ handlers[h].pc = "stop_record"
    /\ handlers[h].op = "stop"
    /\ Transition(handlers[h].id, "stopped", None, [stopped_by |-> "user"])
    /\ Return(h, "stop", handlers[h].id, "Stopped")
    /\ runners' = [runners EXCEPT ![handlers[h].proc].stopAcked = TRUE]
    /\ UNCHANGED <<running_bots, dirExists, files, boot, nops, updaters, config, cfgOut, savers>>

(* delete_bot, lines 856-880: the registry check, then rmtree and          *)
(* remove_bot_state                                                        *)
DeleteRefused(h, bot_id) ==
    /\ Idle(h)
    /\ bot_id \in DOMAIN running_bots
    /\ Return(h, "delete", bot_id, "StopFirst")
    /\ nops' = nops + 1
    /\ NoTransition
    /\ UNCHANGED <<running_bots, runners, dirExists, files, boot, updaters, config, cfgOut, savers>>

DeleteChecked(h, bot_id) ==
    /\ Idle(h)
    /\ bot_id \notin DOMAIN running_bots
    /\ handlers' = [handlers EXCEPT ![h] =
                        [IdleHandler EXCEPT !.pc = "delete_rm", !.op = "delete",
                                            !.id = bot_id]]
    /\ nops' = nops + 1
    /\ NoTransition
    /\ UNCHANGED <<running_bots, runners, dirExists, files, boot, updaters, config, cfgOut, savers>>

remove_bot_state(b, bot_id) == Del(b, bot_id)

OrderAfterRemove(order, bot_id) == SelectSeq(order, LAMBDA i : i # bot_id)

DeleteFinish(h) ==
    /\ handlers[h].pc = "delete_rm"
    /\ dirExists' = [dirExists EXCEPT ![handlers[h].id] = FALSE]
    /\ files' = [files EXCEPT ![handlers[h].id] = <<>>]
    /\ bots' = remove_bot_state(bots, handlers[h].id)
    /\ botOrder' = OrderAfterRemove(botOrder, handlers[h].id)
    /\ disk' = IF handlers[h].id \in DOMAIN bots THEN save_state(bots', botOrder') ELSE disk
    /\ state_file' = IF handlers[h].id \in DOMAIN bots THEN File(Document(bots', botOrder'))
                     ELSE state_file
    /\ Return(h, "delete", handlers[h].id, "Deleted")
    /\ UNCHANGED <<running_bots, runners, boot, nops, clock, updaters, config, cfgOut, savers>>

(* restart_bot, lines 566-587 *)
RestartTerminate(h, bot_id) == Terminate(h, bot_id, "restart")

(* stop_bot_persistent called by restart_bot records stopped; sleep(1)     *)
(* follows                                                                 *)
RestartStopRecord(h) ==
    /\ handlers[h].pc = "stop_record"
    /\ handlers[h].op = "restart"
    /\ Transition(handlers[h].id, "stopped", None, [stopped_by |-> "user"])
    /\ handlers' = [handlers EXCEPT ![h].pc = "restart_read"]
    /\ UNCHANGED <<running_bots, runners, dirExists, files, boot, nops, updaters, config, cfgOut, savers>>

(* line 571: the id is not in running_bots, stop is not called *)
RestartSkipStop(h, bot_id) ==
    /\ Idle(h)
    /\ bot_id \notin DOMAIN running_bots
    /\ handlers' = [handlers EXCEPT ![h] =
                        [IdleHandler EXCEPT !.pc = "restart_read", !.op = "restart",
                                            !.id = bot_id]]
    /\ nops' = nops + 1
    /\ NoTransition
    /\ UNCHANGED <<running_bots, runners, dirExists, files, boot, updaters, config, cfgOut, savers>>

(* bot_state.get('auto_restart', True) if bot_state else True *)
AutoRestartOf(rec) ==
    IF "auto_restart" \in DOMAIN rec THEN rec.auto_restart ELSE TRUE

(* lines 576-577: the flag to start with is read from the record *)
RestartRead(h) ==
    /\ handlers[h].pc = "restart_read"
    /\ handlers' = [handlers EXCEPT ![h].pc = "restart_start",
                        ![h].arg = AutoRestartOf(get_bot_state(bots, handlers[h].id))]
    /\ NoTransition
    /\ UNCHANGED <<running_bots, runners, dirExists, files, boot, nops, updaters, config, cfgOut, savers>>

(* line 579: start_bot_persistent(bot_id, auto_restart) *)
RestartRejected(h) ==
    /\ handlers[h].pc = "restart_start"
    /\ StartResult(handlers[h].id) # "Started"
    /\ Return(h, "restart", handlers[h].id, StartResult(handlers[h].id))
    /\ NoTransition
    /\ UNCHANGED <<running_bots, runners, dirExists, files, boot, nops, updaters, config, cfgOut, savers>>

RestartStart(h) ==
    /\ handlers[h].pc = "restart_start"
    /\ StartResult(handlers[h].id) = "Started"
    /\ Len(runners) < MaxRuns
    /\ StartTransition(handlers[h].id, handlers[h].arg)
    /\ Spawn(handlers[h].id, "restart")
    /\ Return(h, "restart", handlers[h].id, "Restarted")
    /\ UNCHANGED <<running_bots, dirExists, files, boot, nops, updaters, config, cfgOut, savers>>

(* toggle_auto_restart, lines 589-609 *)
(* lines 593-595: no record, 404 *)
ToggleNotFound(h, bot_id) ==
    /\ Idle(h)
    /\ get_bot_state(bots, bot_id) = <<>>
    /\ Return(h, "toggle", bot_id, "NotFound")
    /\ nops' = nops + 1
    /\ NoTransition
    /\ UNCHANGED <<running_bots, runners, dirExists, files, boot, updaters, config, cfgOut, savers>>

(* bot_state.get('status', 'stopped') *)
StatusOf(rec) == IF "status" \in DOMAIN rec THEN rec.status ELSE "stopped"

(* lines 593-600: the flag and the status are read from the record, the    *)
(* arguments of update_bot_state are ready                                 *)
ToggleRead(h, bot_id) ==
    /\ Idle(h)
    /\ get_bot_state(bots, bot_id) # <<>>
    /\ handlers' = [handlers EXCEPT ![h] =
                        [IdleHandler EXCEPT !.pc = "toggle_write", !.op = "toggle",
                            !.id = bot_id,
                            !.arg = [status |-> StatusOf(get_bot_state(bots, bot_id)),
                                     new_value |->
                                        ~AutoRestartOf(get_bot_state(bots, bot_id))]]]
    /\ nops' = nops + 1
    /\ NoTransition
    /\ UNCHANGED <<running_bots, runners, dirExists, files, boot, updaters, config, cfgOut, savers>>

(* line 600: update_bot_state(bot_id, status, auto_restart=new_value) *)
ToggleWrite(h) ==
    /\ handlers[h].pc = "toggle_write"
    /\ Transition(handlers[h].id, handlers[h].arg.status,
                  Some(handlers[h].arg.new_value), <<>>)
    /\ Return(h, "toggle", handlers[h].id, "Toggled")
    /\ UNCHANGED <<running_bots, runners, dirExists, files, boot, nops, updaters, config, cfgOut, savers>>

-----------------------------------------------------------------------------
(* auto_start_bots, lines 415-439, on the main thread before app.run()     *)

AutoStartSpawn ==
    /\ boot.phase = "autostart"
    /\ boot.idx <= Len(boot.cands)
    /\ dirExists[boot.cands[boot.idx]]
    /\ Len(runners) < MaxRuns
    /\ Spawn(boot.cands[boot.idx], "auto")
    /\ boot' = [boot EXCEPT !.idx = @ + 1]
    /\ NoTransition
    /\ UNCHANGED <<running_bots, dirExists, files, handlers, nops, updaters, config, cfgOut, savers>>

(* the bot_path.exists() test left out: the candidate is launched anyway *)
AutoStartSkipLaunches ==
    /\ boot.phase = "autostart"
    /\ boot.idx <= Len(boot.cands)
    /\ ~dirExists[boot.cands[boot.idx]]
    /\ Len(runners) < MaxRuns
    /\ Spawn(boot.cands[boot.idx], "auto")
    /\ boot' = [boot EXCEPT !.idx = @ + 1]
    /\ NoTransition
    /\ UNCHANGED <<running_bots, dirExists, files, handlers, nops, updaters, config, cfgOut, savers>>

AutoStartSkip ==
    /\ boot.phase = "autostart"
    /\ boot.idx <= Len(boot.cands)
    /\ ~dirExists[boot.cands[boot.idx]]
    /\ boot' = [boot EXCEPT !.idx = @ + 1]
    /\ NoTransition
    /\ UNCHANGED <<running_bots, runners, dirExists, files, handlers, nops, updaters, config, cfgOut, savers>>

AutoStartReturn ==
    /\ boot.phase = "autostart"
    /\ boot.idx > Len(boot.cands)
    /\ boot' = [boot EXCEPT !.phase = "serving"]
    /\ NoTransition
    /\ UNCHANGED <<running_bots, runners, dirExists, files, handlers, nops, updaters, config, cfgOut, savers>>

-----------------------------------------------------------------------------
(* save_state_on_exit, lines 1067-1077, run by atexit on the main thread   *)
(* while the daemon threads of the runners are still scheduled; then the   *)
(* next boot of the supervisor.                                            *)

MaxBoots == 2

(* the process is still there *)
Up == boot.phase # "exited"

(* line 1072: for bot_id in running_bots creates the dict iterator *)
ShutdownBegin ==
    /\ boot.phase = "serving"
    /\ boot' = [boot EXCEPT !.phase = "shutdown",
                    !.size = Cardinality(DOMAIN running_bots), !.pos = 0,
                    !.began = clock,
                    !.tracked = DOMAIN running_bots,
                    !.resume = {i \in DOMAIN running_bots :
                                  /\ i \in DOMAIN bots
                                  /\ StatusOf(bots[i]) = "running"
                                  /\ "auto_restart" \in DOMAIN bots[i]
                                  /\ bots[i].auto_restart}]
    /\ NoTransition
    /\ UNCHANGED <<running_bots, runners, dirExists, files, handlers, nops, updaters, config, cfgOut, savers>>

(* the keys the iterator has not gone past: a dict keeps insertion order,  *)
(* which is the order of the handles' start_time                           *)
Ahead == {i \in DOMAIN running_bots : running_bots[i].start_time > boot.pos}

NextKey == CHOOSE i \in Ahead :
              \A j \in Ahead : running_bots[i].start_time <= running_bots[j].start_time

(* the iterator raises RuntimeError when the dict has changed size *)
SizeChanged == Cardinality(DOMAIN running_bots) # boot.size

(* lines 1072-1073: the next key, and its stopped transition *)
ShutdownNext ==
    /\ boot.phase = "shutdown"
    /\ ~SizeChanged
    /\ Ahead # {}
    /\ Transition(NextKey, "stopped", None, [stopped_by |-> "server_shutdown"])
    /\ boot' = [boot EXCEPT !.pos = running_bots[NextKey].start_time]
    /\ UNCHANGED <<running_bots, runners, dirExists, files, handlers, nops, updaters, config, cfgOut, savers>>

(* RuntimeError: dictionary changed size during iteration; the handler     *)
(* ends there, line 1076 is not reached                                    *)
ShutdownRaise ==
    /\ boot.phase = "shutdown"
    /\ SizeChanged
    /\ boot' = [boot EXCEPT !.phase = "exited"]
    /\ NoTransition
    /\ UNCHANGED <<running_bots, runners, dirExists, files, handlers, nops, updaters, config, cfgOut, savers>>

(* the loop is over; line 1076: save_state; the process ends *)
ShutdownSave ==
    /\ boot.phase = "shutdown"
    /\ ~SizeChanged
    /\ Ahead = {}
    /\ disk' = save_state(bots, botOrder)
    /\ state_file' = File(Document(bots, botOrder))
    /\ boot' = [boot EXCEPT !.phase = "exited"]
    /\ UNCHANGED <<bots, botOrder, clock>>
    /\ UNCHANGED <<running_bots, runners, dirExists, files, handlers, nops, updaters, config, cfgOut, savers>>

(* the supervisor is started again: load_state reads the file, the         *)
(* registry and the threads of the new process are empty, __main__ calls   *)
(* auto_start_bots                                                         *)
Reboot ==
    /\ boot.phase = "exited"
    /\ boot.n < MaxBoots
    /\ bots' = disk.bots
    /\ botOrder' = disk.order
    /\ running_bots' = <<>>
    /\ runners' = <<>>
    /\ boot' = [MainThread(boot.n + 1, get_auto_start_bots(disk.bots, disk.order))
                    EXCEPT !.tracked = boot.tracked, !.resume = boot.resume]
    /\ UNCHANGED <<disk, state_file, clock, dirExists, files, handlers, nops, updaters, config, cfgOut, savers>>

NextExit ==
    \/ Up /\ AutoStartSpawn
    \/ Up /\ AutoStartSkip
    \/ Up /\ AutoStartReturn
    \/ \E r \in RunnerIds : Up /\ RunnerNoScripts(r)
    \/ \E r \in RunnerIds : Up /\ RunnerResolve(r)
    \/ \E r \in RunnerIds : Up /\ RunnerLaunch(r)
    \/ \E r \in RunnerIds : Up /\ RunnerRunning(r)
    \/ \E r \in RunnerIds : Up /\ RunnerExit(r)
    \/ \E r \in RunnerIds, code \in {0, 1} : Up /\ ProcExit(r, code)
    \/ ShutdownBegin
    \/ ShutdownNext
    \/ ShutdownRaise
    \/ ShutdownSave
    \/ Reboot

(* two persisted workers: boot, runners, exit of the supervisor, next boot *)
SpecExit == InitBoot /\ [][NextExit]_vars

-----------------------------------------------------------------------------

Runs ==
    \/ \E r \in RunnerIds : RunnerDirMissing(r)
    \/ \E r \in RunnerIds : RunnerNoScripts(r)
    \/ \E r \in RunnerIds : RunnerResolve(r)
    \/ \E r \in RunnerIds : RunnerLaunchFails(r)
    \/ \E r \in RunnerIds : RunnerLaunch(r)
    \/ \E r \in RunnerIds : RunnerRunning(r)
    \/ \E r \in RunnerIds : RunnerExit(r)
    \/ \E r \in RunnerIds, code \in {0, 1, -15} : ProcExit(r, code)

Requests ==
    \/ \E h \in Handlers, i \in Ids, ar \in BOOLEAN : StartRejected(h, i, ar)
    \/ \E h \in Handlers, i \in Ids, ar \in BOOLEAN : Start(h, i, ar)
    \/ \E h \in Handlers, i \in Ids : StopNotRunning(h, i)
    \/ \E h \in Handlers, i \in Ids : StopTerminate(h, i)
    \/ \E h \in Handlers : StopKill(h)
    \/ \E h \in Handlers : StopDeregister(h)
    \/ \E h \in Handlers : StopRecord(h)
    \/ \E h \in Handlers, i \in Ids : DeleteRefused(h, i)
    \/ \E h \in Handlers, i \in Ids : DeleteChecked(h, i)
    \/ \E h \in Handlers : DeleteFinish(h)
    \/ \E h \in Handlers, i \in Ids : RestartTerminate(h, i)
    \/ \E h \in Handlers : RestartStopRecord(h)
    \/ \E h \in Handlers, i \in Ids : RestartSkipStop(h, i)
    \/ \E h \in Handlers : RestartRead(h)
    \/ \E h \in Handlers : RestartRejected(h)
    \/ \E h \in Handlers : RestartStart(h)
    \/ \E h \in Handlers, i \in Ids : ToggleNotFound(h, i)
    \/ \E h \in Handlers, i \in Ids : ToggleRead(h, i)
    \/ \E h \in Handlers : ToggleWrite(h)

AutoStart ==
    \/ AutoStartSpawn
    \/ AutoStartSkip
    \/ AutoStartReturn

Next == Runs \/ Requests \/ AutoStart

(* one worker id, every thread *)
Spec == Init /\ [][Next]_vars

NextBoot ==
    \/ AutoStartSpawn
    \/ AutoStartSkip
    \/ AutoStartReturn
    \/ \E r \in RunnerIds : RunnerNoScripts(r)
    \/ \E r \in RunnerIds : RunnerResolve(r)
    \/ \E r \in RunnerIds : RunnerLaunch(r)
    \/ \E r \in RunnerIds : RunnerRunning(r)
    \/ \E r \in RunnerIds : RunnerPumpRaises(r)
    \/ \E r \in RunnerIds : RunnerExit(r)
    \/ \E r \in RunnerIds, code \in {0, 1} : ProcExit(r, code)

(* the runners with every way they end, under start and delete requests *)
NextRaise ==
    \/ Runs
    \/ \E r \in RunnerIds : RunnerPumpRaises(r)
    \/ AutoStart
    \/ \E h \in Handlers, i \in Ids, ar \in BOOLEAN : StartRejected(h, i, ar)
    \/ \E h \in Handlers, i \in Ids, ar \in BOOLEAN : Start(h, i, ar)
    \/ \E h \in Handlers, i \in Ids : DeleteRefused(h, i)
    \/ \E h \in Handlers, i \in Ids : DeleteChecked(h, i)
    \/ \E h \in Handlers : DeleteFinish(h)

SpecRaise == Init /\ [][NextRaise]_vars

(* a step of the thread of runner r that needs nothing but the thread      *)
(* being scheduled                                                         *)
RunnerStep(r) ==
    /\ r \in RunnerIds
    /\ \/ RunnerDirMissing(r)
       \/ RunnerNoScripts(r)
       \/ RunnerResolve(r)
       \/ RunnerLaunchFails(r)
       \/ RunnerLaunch(r)
       \/ RunnerRunning(r)
       \/ RunnerExit(r)

(* the runner threads are operating-system threads: each one that can step *)
(* is scheduled in the end; a child may run for ever and requests may stop *)
(* coming                                                                  *)
SpecLive ==
    /\ Init
    /\ [][NextRaise]_vars
    /\ \A r \in 1..MaxRuns : WF_vars(RunnerStep(r))

-----------------------------------------------------------------------------
(* Entry-point resolution over the directories a worker can have: every    *)
(* scan order of up to MaxListing of the file names below.                 *)

MaxListing == 3

FileNames ==
    {"Main.py", "main.py", "bot.py", "util.py", "helper.py", "notes.txt", "RUN.PY"}

Listings ==
    {l \in UNION {[1..n -> FileNames] : n \in 1..MaxListing} :
        \A i, j \in DOMAIN l : i # j => l[i] # l[j]}

(* a serving supervisor with an empty store and one uploaded worker *)
InitResolve ==
    /\ bots = <<>>
    /\ botOrder = <<>>
    /\ disk = save_state(bots, botOrder)
    /\ clock = 1
    /\ running_bots = <<>>
    /\ runners = <<>>
    /\ dirExists = [i \in Workers |-> TRUE]
    /\ files \in [Workers -> Listings]
    /\ handlers = [h \in Handlers |-> IdleHandler]
    /\ boot = [MainThread(1, <<>>) EXCEPT !.phase = "serving"]
    /\ nops = 0
    /\ updaters = [t \in Updaters |-> IdleUpdater]
    /\ config = DefaultConfig
    /\ cfgOut = NoOut
    /\ Saved

NextResolve ==
    \/ \E h \in Handlers, i \in Ids, ar \in BOOLEAN : StartRejected(h, i, ar)
    \/ \E h \in Handlers, i \in Ids, ar \in BOOLEAN : Start(h, i, ar)
    \/ \E r \in RunnerIds : RunnerResolve(r)
    \/ \E r \in RunnerIds : RunnerLaunch(r)
    \/ \E r \in RunnerIds : RunnerRunning(r)

(* starts and their runners up to the output pump *)
SpecResolve == InitResolve /\ [][NextResolve]_vars

(* the boot of a supervisor with two persisted workers and their runners *)
SpecBoot == InitBoot /\ [][NextBoot]_vars

-----------------------------------------------------------------------------
(* The store alone.  StoreCalls are calls of update_bot_state the program  *)
(* makes: start's, the runner's on a signalled child, stop's.              *)

StoreCalls ==
    <<[status |-> "starting", auto_restart |-> Some(TRUE), kwargs |-> <<>>],
      [status |-> "crashed", auto_restart |-> None, kwargs |-> [exit_code |-> -15]],
      [status |-> "stopped", auto_restart |-> None, kwargs |-> [stopped_by |-> "user"]]>>

(* a supervisor with one worker and nothing running *)
Quiet ==
    /\ running_bots = <<>>
    /\ runners = <<>>
    /\ dirExists = [i \in Workers |-> TRUE]
    /\ files = [i \in Workers |-> <<"util.py", "Main.py">>]
    /\ handlers = [h \in Handlers |-> IdleHandler]
    /\ boot = [MainThread(1, <<>>) EXCEPT !.phase = "serving"]
    /\ nops = 0
    /\ updaters = [t \in Updaters |-> IdleUpdater]
    /\ config = DefaultConfig
    /\ cfgOut = NoOut
    /\ Saved

supervisorVars == <<running_bots, runners, dirExists, files, handlers, boot>>

(* A record as toggle_auto_restart leaves it after n calls on a stopped    *)
(* worker: n entries, none with extra fields.                              *)
ToggledRec(bot_id, n) ==
    [id |-> bot_id, created_at |-> 1, status |-> "stopped", last_updated |-> n,
     auto_restart |-> (n % 2 = 0),
     status_history |-> [k \in 1..n |-> [status |-> "stopped", timestamp |-> k]]]

MaxHistCalls == 3

HistLens == {0, HistoryCap - 2, HistoryCap - 1, HistoryCap}

InitHist ==
    /\ \E n \in HistLens :
         /\ bots = IF n = 0 THEN <<>> ELSE [i \in Workers |-> ToggledRec(i, n)]
         /\ botOrder = IF n = 0 THEN <<>> ELSE <<"w1">>
         /\ clock = n + 1
    /\ disk = save_state(bots, botOrder)
    /\ Quiet

(* one whole call of update_bot_state *)
HistTransition(bot_id, c) ==
    /\ nops < MaxHistCalls
    /\ Transition(bot_id, StoreCalls[c].status, StoreCalls[c].auto_restart,
                  StoreCalls[c].kwargs)
    /\ nops' = nops + 1
    /\ UNCHANGED <<supervisorVars, updaters, config, cfgOut, savers>>

NextHist == \E i \in Workers, c \in DOMAIN StoreCalls : HistTransition(i, c)

(* transitions applied one after the other to a record with a long history *)
SpecHist == InitHist /\ [][NextHist]_vars

-----------------------------------------------------------------------------
(* update_bot_state statement by statement, lines 114-154, run by threads  *)
(* that interleave.  ref tells whether bot_state, the dict the thread      *)
(* fetched at line 126, is still the one in state['bots'] ("live") or has  *)
(* been replaced there by another thread's line 120 ("orphan"): writes to  *)
(* an orphan reach no reader.                                              *)

MaxStoreCalls == 2

StoreWorker == "w1"

CallOf(t) == StoreCalls[updaters[t].call]

SetUpdater(t, pc) == updaters' = [updaters EXCEPT ![t].pc = pc]

Live(t) == updaters[t].ref = "live"

WriteRec(t, rec) ==
    bots' = IF Live(t) THEN Put(bots, StoreWorker, rec) ELSE bots

(* line 119: if bot_id not in self.state['bots'] *)
UpdCheck(t, c) ==
    /\ updaters[t].pc = "idle"
    /\ nops < MaxStoreCalls
    /\ updaters' = [updaters EXCEPT ![t] =
                        [pc |-> IF StoreWorker \in DOMAIN bots THEN "fetch" ELSE "create",
                         call |-> c, ref |-> "none", slice |-> <<>>]]
    /\ nops' = nops + 1
    /\ UNCHANGED <<bots, botOrder, disk, state_file, clock, supervisorVars, config, cfgOut, savers>>

(* lines 120-124: a new dict is stored, whatever is there by now *)
UpdCreate(t) ==
    /\ updaters[t].pc = "create"
    /\ bots' = Put(bots, StoreWorker, NewBotState(StoreWorker, clock))
    /\ botOrder' = OrderAfterUpdate(botOrder, bots, StoreWorker)
    /\ updaters' = [u \in Updaters |->
                        IF u = t THEN [updaters[t] EXCEPT !.pc = "fetch"]
                        ELSE IF updaters[u].ref = "live"
                             THEN [updaters[u] EXCEPT !.ref = "orphan"]
                             ELSE updaters[u]]
    /\ UNCHANGED <<disk, state_file, clock, nops, supervisorVars, config, cfgOut, savers>>

(* lines 126-128: bot_state is fetched; status and last_updated are set *)
UpdSetStatus(t) ==
    /\ updaters[t].pc = "fetch"
    /\ bots' = Put(bots, StoreWorker,
                   Put(Put(bots[StoreWorker], "status", CallOf(t).status),
                       "last_updated", clock))
    /\ updaters' = [updaters EXCEPT ![t].pc = "append", ![t].ref = "live"]
    /\ UNCHANGED <<botOrder, disk, state_file, clock, nops, supervisorVars, config, cfgOut, savers>>

(* lines 131-140: the entry is built and appended *)
UpdAppend(t) ==
    /\ updaters[t].pc = "append"
    /\ WriteRec(t, Put(bots[StoreWorker], "status_history",
                       Append(StatusHistoryOf(bots[StoreWorker]),
                              StatusEntry(CallOf(t).status, clock, CallOf(t).kwargs))))
    /\ clock' = clock + 1
    /\ SetUpdater(t, "trim")
    /\ UNCHANGED <<botOrder, disk, state_file, nops, supervisorVars, config, cfgOut, savers>>

TooLong(t) == Live(t) /\ Len(StatusHistoryOf(bots[StoreWorker])) > HistoryCap

(* line 143: the history is not longer than 50 (a record created at line   *)
(* 120 and since replaced is short too)                                    *)
UpdTrimSkip(t) ==
    /\ updaters[t].pc = "trim"
    /\ ~TooLong(t)
    /\ SetUpdater(t, "merge")
    /\ UNCHANGED <<bots, botOrder, disk, state_file, clock, nops, supervisorVars, config, cfgOut, savers>>

(* line 144, right-hand side: the list of the last 50 entries is built *)
UpdTrimSlice(t) ==
    /\ updaters[t].pc = "trim"
    /\ TooLong(t)
    /\ updaters' = [updaters EXCEPT ![t].pc = "trim_store",
                        ![t].slice = TrimHistory(StatusHistoryOf(bots[StoreWorker]))]
    /\ UNCHANGED <<bots, botOrder, disk, state_file, clock, nops, supervisorVars, config, cfgOut, savers>>

(* line 144, the assignment: the list built replaces the history *)
UpdTrimStore(t) ==
    /\ updaters[t].pc = "trim_store"
    /\ WriteRec(t, Put(bots[StoreWorker], "status_history", updaters[t].slice))
    /\ updaters' = [updaters EXCEPT ![t].pc = "merge", ![t].slice = <<>>]
    /\ UNCHANGED <<botOrder, disk, state_file, clock, nops, supervisorVars, config, cfgOut, savers>>

(* lines 147-152: auto_restart and the extra fields *)
UpdMerge(t) ==
    /\ updaters[t].pc = "merge"
    /\ WriteRec(t, Merge(IF CallOf(t).auto_restart # None
                         THEN Put(bots[StoreWorker], "auto_restart",
                                  CallOf(t).auto_restart[1])
                         ELSE bots[StoreWorker],
                         CallOf(t).kwargs))
    /\ SetUpdater(t, "save")
    /\ UNCHANGED <<botOrder, disk, state_file, clock, nops, supervisorVars, config, cfgOut, savers>>

(* line 154: save_state writes the whole state as it is now *)
UpdSave(t) ==
    /\ updaters[t].pc = "save"
    /\ disk' = save_state(bots, botOrder)
    /\ state_file' = File(Document(bots, botOrder))
    /\ updaters' = [updaters EXCEPT ![t] = IdleUpdater]
    /\ UNCHANGED <<bots, botOrder, clock, nops, supervisorVars, config, cfgOut, savers>>

InitStore ==
    /\ \/ bots = <<>> /\ botOrder = <<>> /\ clock = 1
       \/ /\ bots = [i \in {StoreWorker} |-> StoppedRec(i)]
          /\ botOrder = <<StoreWorker>>
          /\ clock = 1
       \/ /\ bots = [i \in {StoreWorker} |-> ToggledRec(i, HistoryCap)]
          /\ botOrder = <<StoreWorker>>
          /\ clock = HistoryCap + 1
    /\ disk = save_state(bots, botOrder)
    /\ Quiet

NextStore ==
    \/ \E t \in Updaters, c \in DOMAIN StoreCalls : UpdCheck(t, c)
    \/ \E t \in Updaters : UpdCreate(t)
    \/ \E t \in Updaters : UpdSetStatus(t)
    \/ \E t \in Updaters : UpdAppend(t)
    \/ \E t \in Updaters : UpdTrimSkip(t)
    \/ \E t \in Updaters : UpdTrimSlice(t)
    \/ \E t \in Updaters : UpdTrimStore(t)
    \/ \E t \in Updaters : UpdMerge(t)
    \/ \E t \in Updaters : UpdSave(t)

(* two threads calling update_bot_state on the same worker *)
SpecStore == InitStore /\ [][NextStore]_vars

-----------------------------------------------------------------------------
(* set_config and get_config on the configuration *)

MaxPathLen == 2

MaxCfgCalls == 2

Segments == {"auto_start", "settings", "log_retention_days"}

Paths == UNION {[1..n -> Segments] : n \in 1..MaxPathLen}

ConfigValues == {IntV(14), StrV("auto_start_x")}

Defaults == {IntV(7)}

SetConfig(keys, value) ==
    /\ nops < MaxCfgCalls
    /\ config' = set_config(config, keys, value).node
    /\ cfgOut' = [op |-> "set", path |-> keys, arg |-> value,
                  raised |-> set_config(config, keys, value).raised, value |-> value]
    /\ nops' = nops + 1
    /\ UNCHANGED <<bots, botOrder, disk, state_file, clock, supervisorVars, updaters, savers>>

GetConfig(keys, default) ==
    /\ nops < MaxCfgCalls
    /\ cfgOut' = [op |-> "get", path |-> keys, arg |-> default,
                  raised |-> get_config(config, keys, default).raised,
                  value |-> get_config(config, keys, default).value]
    /\ nops' = nops + 1
    /\ UNCHANGED <<bots, botOrder, disk, state_file, clock, supervisorVars, updaters, config, savers>>

InitConfig ==
    /\ bots = <<>>
    /\ botOrder = <<>>
    /\ clock = 1
    /\ disk = save_state(bots, botOrder)
    /\ Quiet

NextConfig ==
    \/ \E keys \in Paths, value \in ConfigValues : SetConfig(keys, value)
    \/ \E keys \in Paths, default \in Defaults : GetConfig(keys, default)

SpecConfig == InitConfig /\ [][NextConfig]_vars

-----------------------------------------------------------------------------
(* save_state and load_state write by write: the mutating calls of two     *)
(* threads, each followed by its save_state; I/O errors; the supervisor    *)
(* killed at any moment and started again.                                 *)

MaxPersistCalls == 2

persistVars ==
    <<disk, running_bots, runners, dirExists, files, handlers, updaters, config, cfgOut>>

(* the supervisor process is started: BotStateManager.__init__ has yet to  *)
(* call load_state                                                         *)
Loading(n) == [MainThread(n, <<>>) EXCEPT !.phase = "loading"]

Unsupervised ==
    /\ running_bots = <<>>
    /\ runners = <<>>
    /\ dirExists = [i \in BootWorkers |-> TRUE]
    /\ files = [i \in BootWorkers |-> <<"util.py", "Main.py">>]
    /\ handlers = [h \in Handlers |-> IdleHandler]
    /\ updaters = [t \in Updaters |-> IdleUpdater]
    /\ config = DefaultConfig
    /\ cfgOut = NoOut
    /\ nops = 0
    /\ savers = [t \in Savers |-> IdleSaver]

(* a first boot, or a boot on the file a previous process left complete *)
InitPersist ==
    /\ bots = <<>>
    /\ botOrder = <<>>
    /\ clock = 1
    /\ state_file \in {NoFile, File(Document([i \in {"w1"} |-> StoppedRec(i)], <<"w1">>))}
    /\ disk = save_state(load_state(state_file).bots, load_state(state_file).order)
    /\ boot = Loading(1)
    /\ Unsupervised

(* lines 56-72; with no file, save_state is called at once, line 69 *)
LoadState ==
    /\ boot.phase = "loading"
    /\ bots' = load_state(state_file).bots
    /\ botOrder' = load_state(state_file).order
    /\ IF state_file.exists
       THEN /\ boot' = [boot EXCEPT !.phase = "serving"]
            /\ savers' = savers
       ELSE /\ boot' = [boot EXCEPT !.phase = "creating"]
            /\ savers' = [savers EXCEPT ![1].pc = "open", ![1].op = "load"]
    /\ UNCHANGED <<state_file, clock, nops, persistVars>>

(* the save_state of load_state has returned: the constructor is over *)
LoadReturn ==
    /\ boot.phase = "creating"
    /\ savers[1].pc = "idle"
    /\ boot' = [boot EXCEPT !.phase = "serving"]
    /\ UNCHANGED <<bots, botOrder, state_file, savers, clock, nops, persistVars>>

(* update_bot_state up to its last line, where save_state is entered *)
PersistUpdate(t, bot_id, c) ==
    /\ boot.phase = "serving"
    /\ savers[t].pc = "idle"
    /\ nops < MaxPersistCalls
    /\ bots' = update_bot_state(bots, bot_id, StoreCalls[c].status,
                                StoreCalls[c].auto_restart, StoreCalls[c].kwargs, clock)
    /\ botOrder' = OrderAfterUpdate(botOrder, bots, bot_id)
    /\ clock' = clock + 1
    /\ nops' = nops + 1
    /\ savers' = [savers EXCEPT ![t].pc = "open", ![t].op = StoreCalls[c].status,
                                ![t].id = bot_id]
    /\ UNCHANGED <<state_file, boot, persistVars>>

(* remove_bot_state, lines 166-168, on an id the store holds *)
PersistRemove(t, bot_id) ==
    /\ boot.phase = "serving"
    /\ savers[t].pc = "idle"
    /\ nops < MaxPersistCalls
    /\ bot_id \in DOMAIN bots
    /\ bots' = remove_bot_state(bots, bot_id)
    /\ botOrder' = OrderAfterRemove(botOrder, bot_id)
    /\ nops' = nops + 1
    /\ savers' = [savers EXCEPT ![t].pc = "open", ![t].op = "remove", ![t].id = bot_id]
    /\ UNCHANGED <<state_file, boot, clock, persistVars>>

(* line 101: open(state_file, 'w') creates the file or empties it *)
SaveOpen(t) ==
    /\ savers[t].pc = "open"
    /\ state_file' = File(<<>>)
    /\ savers' = [savers EXCEPT ![t].pc = "dump", ![t].pos = 0]
    /\ UNCHANGED <<bots, botOrder, boot, clock, nops, persistVars>>

(* save_state returns to its caller, the exception, if any, logged *)
SaveReturn(t, errors) ==
    savers' = [savers EXCEPT ![t] = [IdleSaver EXCEPT !.op = savers[t].op,
                                                      !.id = savers[t].id,
                                                      !.ioerrors = savers[t].ioerrors + errors]]

(* open raises OSError: lines 103-104 log it, the file is as it was *)
SaveOpenFails(t) ==
    /\ savers[t].pc = "open"
    /\ SaveReturn(t, 1)
    /\ UNCHANGED <<bots, botOrder, state_file, boot, clock, nops, persistVars>>

(* the chunk that the file object of thread t writes next: json.dump reads *)
(* the store as it is at that moment                                       *)
NextChunk(t) ==
    IF savers[t].pos = 0 THEN OpenChunk
    ELSE IF savers[t].pos <= Len(botOrder)
         THEN RecChunk(botOrder[savers[t].pos], bots[botOrder[savers[t].pos]])
    ELSE CloseChunk

(* the dict iterator of json.dump: dictionary changed size during iteration *)
KeysChanged(t) == savers[t].pos >= 1 /\ botOrder # savers[t].keys

(* line 102: one more piece of the document reaches the file; after the    *)
(* last one the with block closes the file and save_state returns          *)
SaveWrite(t) ==
    /\ savers[t].pc = "dump"
    /\ ~KeysChanged(t)
    /\ state_file' = File(WriteAt(state_file.data, savers[t].pos, NextChunk(t)))
    /\ IF savers[t].pos = Len(botOrder) + 1
       THEN SaveReturn(t, 0)
       ELSE savers' = [savers EXCEPT ![t].pos = @ + 1,
                                     ![t].keys = IF savers[t].pos = 0 THEN botOrder ELSE @]
    /\ UNCHANGED <<bots, botOrder, boot, clock, nops, persistVars>>

(* json.dump raises RuntimeError because another thread added or removed a *)
(* record: the with block closes the file as far as it was written         *)
SaveRaises(t) ==
    /\ savers[t].pc = "dump"
    /\ KeysChanged(t)
    /\ SaveReturn(t, 0)
    /\ UNCHANGED <<bots, botOrder, state_file, boot, clock, nops, persistVars>>

(* a write raises OSError (the disk is full): same path *)
SaveWriteFails(t) ==
    /\ savers[t].pc = "dump"
    /\ SaveReturn(t, 1)
    /\ UNCHANGED <<bots, botOrder, state_file, boot, clock, nops, persistVars>>

(* the supervisor process is killed and started again: its threads and its *)
(* memory are gone, the file is what was written so far                    *)
Kill ==
    /\ boot.phase \in {"creating", "serving"}
    /\ boot.n < MaxBoots
    /\ boot' = Loading(boot.n + 1)
    /\ bots' = <<>>
    /\ botOrder' = <<>>
    /\ savers' = [t \in Savers |-> IdleSaver]
    /\ UNCHANGED <<state_file, clock, nops, persistVars>>

SaveSteps(t) ==
    \/ SaveOpen(t)
    \/ SaveOpenFails(t)
    \/ SaveWrite(t)
    \/ SaveWriteFails(t)

NextPersist ==
    \/ LoadState
    \/ LoadReturn
    \/ \E t \in Savers, i \in Ids, c \in DOMAIN StoreCalls : PersistUpdate(t, i, c)
    \/ \E t \in Savers, i \in Ids : PersistRemove(t, i)
    \/ \E t \in Savers : SaveOpen(t)
    \/ \E t \in Savers : SaveWrite(t)
    \/ \E t \in Savers : SaveRaises(t)
    \/ Kill

(* two threads that change the store, and the supervisor killed; no I/O    *)
(* error                                                                   *)
SpecPersist == InitPersist /\ [][NextPersist]_vars

(* one thread, no call beginning before the one before it has returned,   *)
(* and I/O errors                                                          *)
NextSave ==
    \/ LoadState
    \/ LoadReturn
    \/ \E i \in Ids, c \in DOMAIN StoreCalls : PersistUpdate(1, i, c)
    \/ \E i \in Ids : PersistRemove(1, i)
    \/ SaveSteps(1)

SpecSave == InitPersist /\ [][NextSave]_vars

-----------------------------------------------------------------------------
(* Vocabulary of the properties *)

(* this step is handler h accepting the request op(bot_id) *)
Calls(h, op, bot_id) ==
    /\ Idle(h)
    /\ nops' = nops + 1
    /\ IF handlers'[h].pc = "idle"
       THEN handlers'[h].ret.op = op /\ handlers'[h].ret.id = bot_id
       ELSE handlers'[h].op = op /\ handlers'[h].id = bot_id

(* ... and the request returns within the step, with result res *)
Returns(h, res) == handlers'[h].pc = "idle" /\ handlers'[h].ret.res = res

StatusHistory(b, bot_id) ==
    IF bot_id \in DOMAIN b /\ "status_history" \in DOMAIN b[bot_id]
    THEN b[bot_id].status_history ELSE <<>>

LastEntry(b, bot_id) == StatusHistory(b, bot_id)[Len(StatusHistory(b, bot_id))]

(* this step is runner r leaving the output pump with the child's exit code *)
RecordsExit(r) ==
    runners[r].pc = "pump" /\ runners'[r].pc = "done" /\ runners'[r].exc = ""

-----------------------------------------------------------------------------
(* C1: at most one ProcessRunner exists per worker id at any time, hence   *)
(* at most one open log write handle and at most one live child process    *)
(* for that id.                                                            *)
C1_AtMostOneRunner ==
    \A i \in Ids :
        /\ Cardinality(LiveRunners(i)) <= 1
        /\ Cardinality({r \in RunnerIds : runners[r].wid = i /\ runners[r].log}) <= 1
        /\ Cardinality({r \in RunnerIds : runners[r].wid = i /\ runners[r].proc = "alive"}) <= 1

C3_StopNotRunningChangesNothing ==
    [][\A h \in Handlers, i \in Ids :
         (Calls(h, "stop", i) /\ i \notin DOMAIN running_bots)
            => /\ Returns(h, "NotRunning")
               /\ UNCHANGED <<bots, botOrder, disk, running_bots>>]_vars

(* stop was answered NotRunning for a worker that has a record *)
C3_Witness ==
    \E h \in Handlers :
        /\ handlers[h].ret.op = "stop"
        /\ handlers[h].ret.res = "NotRunning"
        /\ handlers[h].ret.id \in DOMAIN bots
        /\ handlers[h].ret.id \notin DOMAIN running_bots

(* C4: when the runner of a worker obtains exit code 0 from its child,     *)
(* getStatus(id) reports status stopped and exitCode 0 once the runner has *)
(* recorded the exit.                                                      *)
C4_ExitZeroIsStopped ==
    [][\A r \in RunnerIds :
         (RecordsExit(r) /\ runners[r].rc = 0)
            => /\ get_bot_state(bots', runners[r].wid).status = "stopped"
               /\ get_bot_state(bots', runners[r].wid).exit_code = 0]_vars

(* a runner spawned by a successful start has seen its child exit with 0   *)
(* and the record says stopped, exit code 0                                *)
C4_Witness ==
    \E r \in RunnerIds :
        /\ runners[r].by = "start"
        /\ runners[r].pc = "done"
        /\ runners[r].proc = "exited"
        /\ runners[r].rc = 0
        /\ runners[r].wid \in DOMAIN bots
        /\ bots[runners[r].wid].status = "stopped"
        /\ "exit_code" \in DOMAIN bots[runners[r].wid]
        /\ bots[runners[r].wid].exit_code = 0

(* C5: when the runner obtains a non-zero exit code c from its child, the  *)
(* transition it records is crashed with exitCode c, never error.          *)
C5_NonZeroExitIsCrashed ==
    [][\A r \in RunnerIds :
         (RecordsExit(r) /\ runners[r].rc # 0)
            => /\ Len(StatusHistory(bots', runners[r].wid))
                    = Len(StatusHistory(bots, runners[r].wid)) + 1
               /\ LastEntry(bots', runners[r].wid).status = "crashed"
               /\ LastEntry(bots', runners[r].wid).exit_code = runners[r].rc
               /\ bots'[runners[r].wid].status = "crashed"
               /\ bots'[runners[r].wid].exit_code = runners[r].rc]_vars

(* a child killed by a signal (negative code) was recorded as crashed *)
C5_Witness ==
    \E r \in RunnerIds :
        /\ runners[r].pc = "done"
        /\ runners[r].proc = "exited"
        /\ runners[r].rc < 0
        /\ runners[r].wid \in DOMAIN bots
        /\ bots[runners[r].wid].status = "crashed"
        /\ bots[runners[r].wid].exit_code = runners[r].rc

C7_StatusIsLastEntry ==
    (\A t \in Updaters : updaters[t].pc = "idle")
        => \A i \in DOMAIN bots :
              bots[i].status = LastEntry(bots, i).status

(* the path is that of a value stored in the configuration *)
RECURSIVE Resolves(_, _)
Resolves(node, keys) ==
    \/ keys = <<>>
    \/ /\ node.kind = "map"
       /\ Head(keys) \in DOMAIN node.m
       /\ Resolves(node.m[Head(keys)], Tail(keys))

(* C8: after setConfig(p, v), for every path p and value v, getConfig(p,   *)
(* d) returns v whatever the default d.                                    *)
C8_SetThenGet ==
    cfgOut.op = "set"
        => /\ ~cfgOut.raised
           /\ \A d \in Defaults : get_config(config, cfgOut.path, d) = Returned(cfgOut.arg)

(* C9: getConfig(p, X) returns X, without raising, for every path p that   *)
(* does not resolve to a stored value.                                     *)
C9_GetAbsentIsDefault ==
    (cfgOut.op = "get" /\ ~Resolves(config, cfgOut.path))
        => /\ ~cfgOut.raised
           /\ cfgOut.value = cfgOut.arg

ShutdownEntries(b, bot_id) ==
    {k \in 1..Len(StatusHistory(b, bot_id)) :
        /\ StatusHistory(b, bot_id)[k].status = "stopped"
        /\ "stopped_by" \in DOMAIN StatusHistory(b, bot_id)[k]
        /\ StatusHistory(b, bot_id)[k].stopped_by = "server_shutdown"
        /\ StatusHistory(b, bot_id)[k].timestamp >= boot.began}

(* C11: once save_state_on_exit is over, every id that was in the running  *)
(* registry when it began has a stopped transition with stopped_by =       *)
(* server_shutdown in the persisted state, and the persisted state (what   *)
(* load_state will read) shows it with status stopped.                     *)
C11_ShutdownMarksStopped ==
    boot.phase = "exited" =>
        \A i \in boot.tracked :
            /\ i \in DOMAIN disk.bots
            /\ ShutdownEntries(disk.bots, i) # {}
            /\ disk.bots[i].status = "stopped"

(* C12: at the boot that follows an exit of the supervisor, every worker   *)
(* that was running with auto_restart true when the exit began, and whose  *)
(* directory exists, is among the candidates auto_start_bots relaunches.   *)
C12_RunningAtExitIsRelaunched ==
    [][(boot.phase = "exited" /\ boot'.phase = "autostart")
          => \A i \in boot.resume :
                dirExists[i] => \E k \in 1..Len(boot'.cands) : boot'.cands[k] = i]_vars

(* C13: get_auto_start_bots returns exactly the ids of the records whose   *)
(* auto_restart flag is true and whose status is running; a record whose   *)
(* flag was never set is not returned.                                     *)
C13_CandidatesHaveFlagSet ==
    \A i \in DOMAIN bots :
        (\E k \in 1..Len(get_auto_start_bots(bots, botOrder)) :
            get_auto_start_bots(bots, botOrder)[k] = i)
        <=> /\ "auto_restart" \in DOMAIN bots[i]
            /\ bots[i].auto_restart
            /\ StatusOf(bots[i]) = "running"

(* this step records nothing, spawns nothing and leaves the registry alone *)
NothingStarted == UNCHANGED <<bots, botOrder, disk, runners, running_bots>>

(* C14: start(id) returns NotFound when the worker directory does not      *)
(* exist and NoScripts when it holds no .py file, and then records no      *)
(* transition, spawns no runner and leaves the registry unchanged.         *)
(* Otherwise (the id not being registered) it records exactly one starting *)
(* transition that carries the given auto_restart flag, spawns the runner  *)
(* and returns Started while the runner has not launched anything yet.     *)
C14_StartRejectsOrRecordsStarting ==
    [][\A h \in Handlers, i \in Ids :
         Calls(h, "start", i) =>
            IF ~dirExists[i] THEN Returns(h, "NotFound") /\ NothingStarted
            ELSE IF i \in DOMAIN running_bots THEN TRUE
            ELSE IF python_files(files[i]) = <<>>
                 THEN Returns(h, "NoScripts") /\ NothingStarted
            ELSE /\ Returns(h, "Started")
                 /\ Len(StatusHistory(bots', i)) = Len(StatusHistory(bots, i)) + 1
                 /\ LastEntry(bots', i).status = "starting"
                 /\ bots'[i].status = "starting"
                 /\ \E ar \in BOOLEAN :
                       /\ Start(h, i, ar)
                       /\ "auto_restart" \in DOMAIN bots'[i]
                       /\ bots'[i].auto_restart = ar
                 /\ runners' = Append(runners, Runner(i, "start"))
                 /\ Runner(i, "start").proc = "none"
                 /\ UNCHANGED running_bots]_vars

(* start has returned Started for a worker that had a record with the flag *)
(* set: the record says starting with the flag now false, and the runner   *)
(* spawned has not launched its child                                      *)
C14_Witness ==
    \E h \in Handlers, r \in RunnerIds :
        /\ handlers[h].ret.op = "start"
        /\ handlers[h].ret.res = "Started"
        /\ runners[r].wid = handlers[h].ret.id
        /\ runners[r].by = "start"
        /\ runners[r].pc = "resolve"
        /\ handlers[h].ret.id \in DOMAIN bots
        /\ bots[handlers[h].ret.id].status = "starting"
        /\ bots[handlers[h].ret.id].auto_restart = FALSE
        /\ Len(StatusHistory(bots, handlers[h].ret.id)) > 2
        /\ StatusHistory(bots, handlers[h].ret.id)[2].status = "running"

(* handler h moves from pc to pc2 in this step *)
Moves(h, pc, pc2) == handlers[h].pc = pc /\ handlers'[h].pc = pc2

(* C15: stop(id) on a registered id first sends terminate(); kill() is     *)
(* sent only to a process that was sent terminate() and has not exited;    *)
(* the handle is removed only after the process has exited, and the        *)
(* stopped transition with stopped_by = user is recorded after that; when  *)
(* stop returns Stopped the id is not in the registry.                     *)
C15_StopTerminatesThenDeregisters ==
    [][\A h \in Handlers :
         /\ \A i \in Ids :
               (Calls(h, "stop", i) /\ i \in DOMAIN running_bots)
                  => /\ Moves(h, "idle", "stop_wait")
                     /\ runners[running_bots[i].process].proc = "alive"
                            => runners'[running_bots[i].process].term
                     /\ UNCHANGED <<bots, botOrder, disk, running_bots>>
         /\ (handlers[h].op = "stop" /\ handlers[h].pc = "stop_wait"
                /\ runners'[handlers[h].proc].rc = -9
                /\ runners[handlers[h].proc].rc # -9)
               => runners[handlers[h].proc].term /\ runners[handlers[h].proc].proc = "alive"
         /\ (handlers[h].op = "stop" /\ Moves(h, "stop_wait", "stop_record"))
               => /\ runners[handlers[h].proc].proc = "exited"
                  /\ handlers[h].id \notin DOMAIN running_bots'
                  /\ UNCHANGED <<bots, botOrder, disk>>
         /\ (handlers[h].op = "stop" /\ Moves(h, "stop_record", "idle"))
               => /\ Returns(h, "Stopped")
                  /\ LastEntry(bots', handlers[h].id).status = "stopped"
                  /\ LastEntry(bots', handlers[h].id).stopped_by = "user"
                  /\ handlers[h].id \notin DOMAIN running_bots']_vars

(* the recorded status of bot_id changes from old to new in this step *)
StatusChanges(bot_id, old, new) ==
    /\ bot_id \in DOMAIN bots
    /\ bot_id \in DOMAIN bots'
    /\ StatusOf(bots[bot_id]) = old
    /\ StatusOf(bots'[bot_id]) = new
    /\ old # new

Statuses == {"stopped", "starting", "running", "crashed", "error"}

(* C16: every change of a worker's recorded status follows stopped ->      *)
(* starting -> running -> {stopped, crashed, error}: running is entered    *)
(* only from starting, crashed only from running, and starting is left for *)
(* stopped only by the step in which the worker's runner records the exit  *)
(* of its child.                                                           *)
C16_StatusFollowsStateMachine ==
    [][\A i \in Ids, old \in Statuses :
         /\ StatusChanges(i, old, "running") => old = "starting"
         /\ StatusChanges(i, old, "crashed") => old = "running"
         /\ StatusChanges(i, "starting", "stopped")
               => \E r \in RunnerIds : runners[r].wid = i /\ RecordsExit(r)]_vars

(* C17: in every state, a worker id that is absent from running_bots has   *)
(* no live child process launched by a runner of this supervisor.          *)
C17_UnregisteredMeansNotRunning ==
    \A i \in Ids :
        i \notin DOMAIN running_bots
            => \A r \in RunnerIds : runners[r].wid = i => runners[r].proc # "alive"

(* the entries of the worker's history that the calls made so far appended *)
(* (the clock ticks once per append)                                       *)
CallEntries ==
    {k \in 1..Len(StatusHistory(bots, StoreWorker)) :
        StatusHistory(bots, StoreWorker)[k].timestamp > clock - 1 - nops}

(* C18: once n calls of update_bot_state for one id, made from different   *)
(* threads, have all returned (n <= 50), the history holds one entry per   *)
(* call, none lost or overwritten, also when the calls race on creating    *)
(* the record.                                                             *)
C18_OneEntryPerCall ==
    ((\A t \in Updaters : updaters[t].pc = "idle") /\ nops <= HistoryCap)
        => Cardinality(CallEntries) = nops

(* C19: toggle_auto_restart on an id that has a record inverts the         *)
(* persisted auto_restart flag and leaves the worker's status and the      *)
(* registry as they are, also when a runner's or stop's transition for the *)
(* id comes between its read and its write; on an id with no record it     *)
(* returns NotFound and creates no record.                                 *)
C19_ToggleOnlyFlipsFlag ==
    [][\A h \in Handlers :
         /\ \A i \in Ids :
               (Calls(h, "toggle", i) /\ i \notin DOMAIN bots)
                  => /\ Returns(h, "NotFound")
                     /\ UNCHANGED <<bots, botOrder, disk, running_bots>>
         /\ (handlers[h].op = "toggle" /\ Moves(h, "toggle_write", "idle")
                /\ handlers[h].id \in DOMAIN bots)
               => /\ bots'[handlers[h].id].auto_restart
                        = ~AutoRestartOf(bots[handlers[h].id])
                  /\ StatusOf(bots'[handlers[h].id]) = StatusOf(bots[handlers[h].id])
                  /\ UNCHANGED running_bots]_vars

(* C20: restart on a registered id begins with stop (terminate is sent,    *)
(* nothing is spawned); the step in which restart spawns the new runner    *)
(* finds the id out of the registry, the process it stopped exited; the    *)
(* starting transition carries the persisted auto_restart flag (true when  *)
(* there is none), so the flag is what it was; on an id that is not        *)
(* registered restart sends no terminate and records no stopped.           *)
C20_RestartStopsThenStarts ==
    [][\A h \in Handlers :
         /\ \A i \in Ids :
               Calls(h, "restart", i) =>
                  /\ UNCHANGED <<bots, botOrder, disk, running_bots>>
                  /\ Len(runners') = Len(runners)
                  /\ IF i \in DOMAIN running_bots
                     THEN Moves(h, "idle", "stop_wait")
                     ELSE Moves(h, "idle", "restart_read") /\ UNCHANGED runners
         /\ (handlers[h].op = "restart" /\ handlers'[h].pc # handlers[h].pc
                /\ Len(runners') > Len(runners))
               => /\ Moves(h, "restart_start", "idle")
                  /\ handlers[h].id \notin DOMAIN running_bots
                  /\ handlers[h].proc # 0 => runners[handlers[h].proc].proc = "exited"
                  /\ bots'[handlers[h].id].status = "starting"
                  /\ bots'[handlers[h].id].auto_restart
                        = AutoRestartOf(get_bot_state(bots, handlers[h].id))
         /\ (handlers[h].op = "restart" /\ handlers'[h].pc # handlers[h].pc
                /\ handlers[h].proc = 0)
               => ~StatusChanges(handlers[h].id, StatusOf(get_bot_state(bots, handlers[h].id)),
                                 "stopped")]_vars

-----------------------------------------------------------------------------
(* the last history entry of the worker's record carries field = value *)
LastEntryHas(b, bot_id, field, value) ==
    /\ StatusHistory(b, bot_id) # <<>>
    /\ field \in DOMAIN LastEntry(b, bot_id)
    /\ LastEntry(b, bot_id)[field] = value

(* the worker's record carries field = value *)
RecordHas(b, bot_id, field, value) ==
    /\ bot_id \in DOMAIN b
    /\ field \in DOMAIN b[bot_id]
    /\ b[bot_id][field] = value

(* C22: a runner that finds no eligible script in the worker directory     *)
(* records an error transition and ends, without spawning a child process  *)
(* and without touching the running registry.                              *)
C22_NoScriptsIsErrorWithoutSpawn ==
    [][\A r \in RunnerIds :
         (/\ runners[r].pc = "resolve"
          /\ dirExists[runners[r].wid]
          /\ python_files(files[runners[r].wid]) = <<>>
          /\ runners'[r] # runners[r])
            => /\ runners'[r].pc = "done"
               /\ runners'[r].proc = "none"
               /\ ~runners'[r].log
               /\ running_bots' = running_bots
               /\ RecordHas(bots', runners[r].wid, "status", "error")
               /\ LastEntryHas(bots', runners[r].wid, "status", "error")
               /\ LastEntryHas(bots', runners[r].wid, "error", "No Python files found")]_vars

(* a runner has ended on a directory without scripts: error recorded, no   *)
(* child, no handle                                                        *)
C22_Witness ==
    \E r \in RunnerIds :
        /\ runners[r].pc = "done"
        /\ runners[r].proc = "none"
        /\ runners[r].exc = ""
        /\ python_files(files[runners[r].wid]) = <<>>
        /\ dirExists[runners[r].wid]
        /\ runners[r].wid \notin DOMAIN running_bots
        /\ LastEntryHas(bots, runners[r].wid, "error", "No Python files found")

(* C23: when a runner raises an unexpected exception, from the entry-point *)
(* resolution to the output pump, the worker is transitioned to error with *)
(* the message recorded, and the handle the runner registered is no longer *)
(* in the running registry.                                                *)
C23_ExceptionIsErrorAndDeregisters ==
    [][\A r \in RunnerIds :
         (runners[r].exc = "" /\ runners'[r].exc # "")
            => /\ runners'[r].pc = "done"
               /\ RecordHas(bots', runners[r].wid, "status", "error")
               /\ RecordHas(bots', runners[r].wid, "error", runners'[r].exc)
               /\ LastEntryHas(bots', runners[r].wid, "status", "error")
               /\ LastEntryHas(bots', runners[r].wid, "error", runners'[r].exc)
               /\ runners[r].pc \in {"registered", "pump"}
                     => runners[r].wid \notin DOMAIN running_bots']_vars

(* the output pump of a registered runner raised: error with the message   *)
(* is the record's state and the id is out of the registry                 *)
C23_Witness ==
    \E r \in RunnerIds :
        /\ runners[r].exc = "OSError"
        /\ runners[r].proc # "none"
        /\ runners[r].wid \notin DOMAIN running_bots
        /\ RecordHas(bots, runners[r].wid, "status", "error")
        /\ LastEntryHas(bots, runners[r].wid, "error", "OSError")

TerminalStatuses == {"stopped", "crashed", "error"}

(* runner r has ended: its log file is closed and the worker's record is   *)
(* in a terminal status                                                    *)
Ended(r) ==
    /\ r \in RunnerIds
    /\ runners[r].pc = "done"
    /\ ~runners[r].log
    /\ \E st \in TerminalStatuses : RecordHas(bots, runners[r].wid, "status", st)

(* C24: once the child process of a runner has exited, the runner ends     *)
(* with its log file closed and a terminal status (stopped, crashed or     *)
(* error) recorded; and on every path by which a runner ends (no scripts,  *)
(* normal exit, crash, exception) the log file is closed.                  *)
C24_RunnerEndsAndClosesLog ==
    /\ [](\A r \in RunnerIds : runners[r].pc = "done" => ~runners[r].log)
    /\ \A r \in 1..MaxRuns :
          (r \in RunnerIds /\ runners[r].proc = "exited" /\ runners[r].pc # "done")
             ~> Ended(r)

(* a started runner whose child crashed has ended, the log closed *)
C24_Witness ==
    \E r \in RunnerIds :
        /\ runners[r].by = "start"
        /\ runners[r].proc = "exited"
        /\ runners[r].rc = 1
        /\ runners[r].exc = ""
        /\ Ended(r)
        /\ RecordHas(bots, runners[r].wid, "status", "crashed")

(* C25: auto_start_bots launches a candidate the way a manual start does:  *)
(* the id is not in the running registry, the directory holds an eligible  *)
(* script, and a starting transition is recorded before the runner is      *)
(* spawned.                                                                *)
C25_AutoStartGoesThroughStart ==
    [][\A r \in (DOMAIN runners') \ RunnerIds :
         runners'[r].by = "auto"
            => /\ runners'[r].wid \notin DOMAIN running_bots
               /\ python_files(files[runners'[r].wid]) # <<>>
               /\ RecordHas(bots', runners'[r].wid, "status", "starting")
               /\ LastEntryHas(bots', runners'[r].wid, "status", "starting")]_vars

(* the dict d without the keys *)
Without(d, keys) == [x \in (DOMAIN d) \ keys |-> d[x]]

(* a record's fields and history entries, the timestamps left out *)
Fields(rec) == Without(rec, {"created_at", "last_updated", "status_history"})

Entries(rec) ==
    [k \in 1..Len(StatusHistoryOf(rec)) |-> Without(StatusHistoryOf(rec)[k], {"timestamp"})]

(* this step is the call StoreCalls[c] of update_bot_state for bot_id *)
Applied(bot_id, c) ==
    bots' = update_bot_state(bots, bot_id, StoreCalls[c].status,
                             StoreCalls[c].auto_restart, StoreCalls[c].kwargs, clock)

(* the record after the same call is made once more *)
Again(bot_id, c) ==
    update_bot_state(bots', bot_id, StoreCalls[c].status, StoreCalls[c].auto_restart,
                     StoreCalls[c].kwargs, clock')[bot_id]

(* C26 as stated: update_bot_state is an idempotent upsert: the same call  *)
(* made twice in succession leaves the record (status, history, merged     *)
(* fields; timestamps aside) as the call made once leaves it.              *)
C26_TransitionIsIdempotent ==
    [][\A i \in Workers, c \in DOMAIN StoreCalls :
         Applied(i, c)
            => /\ Fields(Again(i, c)) = Fields(bots'[i])
               /\ Entries(Again(i, c)) = Entries(bots'[i])]_vars

(* C26, amended: update_bot_state is an upsert that creates the record     *)
(* when absent; the same call made twice in succession leaves the status   *)
(* and the merged fields as the call made once leaves them, and the        *)
(* history holds one more entry, equal to the last one (timestamps aside), *)
(* the oldest entry being dropped at 50.                                   *)
C26_RepeatAppendsOneEntry ==
    [][\A i \in Workers, c \in DOMAIN StoreCalls :
         Applied(i, c)
            => /\ i \in DOMAIN bots'
               /\ Fields(Again(i, c)) = Fields(bots'[i])
               /\ bots'[i].status = StoreCalls[c].status
               /\ \A f \in DOMAIN StoreCalls[c].kwargs :
                     RecordHas(bots', i, f, StoreCalls[c].kwargs[f])
               /\ LET h1 == Entries(bots'[i])
                      h2 == Entries(Again(i, c))
                  IN  /\ Len(h2) = IF Len(h1) < HistoryCap THEN Len(h1) + 1
                                   ELSE HistoryCap
                      /\ h1[Len(h1)] = Merge([status |-> StoreCalls[c].status],
                                             StoreCalls[c].kwargs)
                      /\ h2[Len(h2)] = h1[Len(h1)]
                      /\ \A k \in 1..(Len(h2) - 1) :
                            h2[k] = h1[k + Len(h1) + 1 - Len(h2)]]_vars

(* the same call has been made twice on a full history: its entry is there *)
(* twice                                                                   *)
C26_Witness ==
    /\ nops >= 2
    /\ "w1" \in DOMAIN bots
    /\ Len(Entries(bots["w1"])) = HistoryCap
    /\ Entries(bots["w1"])[HistoryCap] = Entries(bots["w1"])[HistoryCap - 1]
    /\ LastEntryHas(bots, "w1", "stopped_by", "user")
    /\ StatusHistory(bots, "w1")[1].timestamp > 1

(* the place of a file's lower-cased name in the priority list, 0 if none *)
Rank(name) ==
    IF \E i \in DOMAIN common_names : common_names[i] = Lower(name)
    THEN CHOOSE i \in DOMAIN common_names : common_names[i] = Lower(name)
    ELSE 0

(* C29: the runner launches, of the eligible scripts of the directory, one *)
(* whose lower-cased name is the earliest of the priority list (main, bot, *)
(* app, run, start) that any script matches, whatever the scan order; when *)
(* none matches, the first eligible script in scan order; and the chosen   *)
(* script is recorded in the record's command field.                       *)
C29_EntryPointByPriority ==
    \A r \in RunnerIds :
        runners[r].pc \in {"launch", "registered", "pump", "done"}
            => LET pf == python_files(files[runners[r].wid])
                   chosen == runners[r].script
               IN  /\ \E j \in DOMAIN pf : pf[j] = chosen
                   /\ IF \E j \in DOMAIN pf : Rank(pf[j]) > 0
                      THEN /\ Rank(chosen) > 0
                           /\ \A j \in DOMAIN pf :
                                 Rank(pf[j]) > 0 => Rank(chosen) <= Rank(pf[j])
                      ELSE chosen = pf[1]
                   /\ runners[r].pc \in {"pump", "done"}
                         => RecordHas(bots, runners[r].wid, "command", chosen)

(* a script of the priority list is running although a script of lower     *)
(* priority and a script outside the list come before it in the scan       *)
C29_Witness ==
    \E r \in RunnerIds :
        /\ runners[r].pc = "pump"
        /\ LET pf == python_files(files[runners[r].wid])
           IN  /\ Len(pf) = 3
               /\ Rank(pf[1]) = 0
               /\ Rank(pf[2]) > Rank(pf[3])
               /\ Rank(pf[3]) > 0
               /\ runners[r].script = pf[3]
        /\ RecordHas(bots, runners[r].wid, "command", runners[r].script)

(* no thread is in save_state *)
NoSaver == \A t \in Savers : savers[t].pc = "idle"

(* C21: the state file holds a complete document, one that load_state does *)
(* not treat as corrupt, whenever the supervisor is started after a kill   *)
(* and whenever the threads that persisted have all returned without an    *)
(* I/O error.                                                              *)
C21_FileIsCompleteDocument ==
    (\/ boot.phase = "loading"
     \/ NoSaver /\ \A t \in Savers : savers[t].ioerrors = 0)
        => (state_file.exists => Parses(state_file.data))

(* the change of the last mutating call of thread t is in the store *)
Visible(b, t) ==
    IF savers[t].op = "remove" THEN savers[t].id \notin DOMAIN b
    ELSE IF savers[t].op \in {"load", "none"} THEN TRUE
    ELSE RecordHas(b, savers[t].id, "status", savers[t].op)

(* C27: when save_state fails with an I/O error the mutating call still    *)
(* returns, with its change in the in-memory state; and a later save_state *)
(* that succeeds leaves in the file the whole in-memory state, the earlier *)
(* change included.                                                        *)
C27_FailedPersistIsRetried ==
    [][\A t \in Savers :
         /\ savers'[t].ioerrors > savers[t].ioerrors
               => /\ savers'[t].pc = "idle"
                  /\ bots' = bots
                  /\ Visible(bots', t)
         /\ (/\ savers[t].pc = "dump"
             /\ savers'[t].pc = "idle"
             /\ savers'[t].ioerrors = savers[t].ioerrors)
               => /\ Parses(state_file'.data)
                  /\ Decode(state_file'.data) = [bots |-> bots', order |-> botOrder']
                  /\ Visible(Decode(state_file'.data).bots, t)]_vars

(* a persist failed, a later one succeeded: the file holds the two records *)
(* of the store                                                            *)
C27_Witness ==
    /\ savers[1].ioerrors > 0
    /\ NoSaver
    /\ Len(botOrder) = 2
    /\ state_file.exists
    /\ Parses(state_file.data)
    /\ Decode(state_file.data) = [bots |-> bots, order |-> botOrder]

(* C28: load_state never fails: with no file it builds an empty state and  *)
(* persists it at once, before any request is served; with a file that is  *)
(* corrupt it falls back to a state with no records; with a complete file  *)
(* it holds what the file says; in each case it goes on to serve.          *)
C28_LoadNeverFails ==
    [][(boot.phase = "loading" /\ boot'.phase # "loading")
          => /\ ~state_file.exists
                  => /\ bots' = <<>>
                     /\ boot'.phase = "creating"
                     /\ savers'[1].pc = "open"
             /\ (state_file.exists /\ ~Parses(state_file.data))
                  => /\ bots' = <<>>
                     /\ boot'.phase = "serving"
             /\ (state_file.exists /\ Parses(state_file.data))
                  => /\ [bots |-> bots', order |-> botOrder'] = Decode(state_file.data)
                     /\ boot'.phase = "serving"]_vars

(* started on a corrupt file, the supervisor has accepted a transition     *)
(* that it has yet to write                                                *)
C28_Witness ==
    /\ boot.n = 2
    /\ boot.phase = "serving"
    /\ state_file.exists
    /\ ~Parses(state_file.data)
    /\ bots # <<>>
    /\ \E t \in Savers : savers[t].pc = "open"

(* C30: once stop(id) has returned Stopped, the runner of the process it   *)
(* terminated does not record its own exit transition: the record stays    *)
(* stopped with stopped_by = user.                                         *)
C30_StopIsNotOverridden ==
    [][\A r \in RunnerIds :
         (runners[r].stopAcked /\ RecordsExit(r))
            => /\ bots' = bots
               /\ RecordHas(bots, runners[r].wid, "status", "stopped")
               /\ RecordHas(bots, runners[r].wid, "stopped_by", "user")]_vars

(* C31: the deregistration on a runner's exit path removes only the handle *)
(* that this runner stored: in every step in which a runner that has       *)
(* spawned its child reaches the end of run_bot and its worker's id leaves *)
(* running_bots, the handle that was stored under the id held this         *)
(* runner's own child process.  So an old runner that ends after its       *)
(* worker was stopped and started again leaves the new runner's handle in  *)
(* place.                                                                  *)
C31_RunnerRemovesOnlyItsHandle ==
    [][\A r \in RunnerIds :
         ( /\ runners[r].proc # "none"
           /\ runners[r].pc # "done"
           /\ runners'[r].pc = "done"
           /\ runners[r].wid \in DOMAIN running_bots
           /\ runners[r].wid \notin DOMAIN running_bots' )
            => running_bots[runners[r].wid].process = r]_vars

====
